---- MODULE Spec2Model ----
(***************************************************************************)
(* Model of the PDF outline extractor (src/main.py).                       *)
(*                                                                         *)
(* A text is a sequence of one-character strings, so that strip, split,    *)
(* lower, substring search and the numbered-heading regular expression are *)
(* computed character by character, as Python computes them.  A font size  *)
(* is an integer number of tenths of a point (10.5pt is 105).              *)
(***************************************************************************)
EXTENDS Integers, Sequences, FiniteSets, TLC

(* ------------------------------ bounds -------------------------------- *)

\* largest number of pages of an input document
MaxPages == 2

\* largest number of text lines of an input document (all pages together)
MaxLines == 3

(* --------------------------- Python helpers --------------------------- *)

SetMin(S) == CHOOSE x \in S : \A y \in S : x <= y

SetMax(S) == CHOOSE x \in S : \A y \in S : x >= y

UpperSeq == << "A","B","C","D","E","F","G","H","I","J","K","L","M",
               "N","O","P","Q","R","S","T","U","V","W","X","Y","Z" >>

LowerSeq == << "a","b","c","d","e","f","g","h","i","j","k","l","m",
               "n","o","p","q","r","s","t","u","v","w","x","y","z" >>

DigitSet == {"0","1","2","3","4","5","6","7","8","9"}

IsSpace(c) == c \in {" ", "\t"}

IsUpperChar(c) == \E i \in 1..26 : UpperSeq[i] = c

IsLowerChar(c) == \E i \in 1..26 : LowerSeq[i] = c

IsDigit(c) == c \in DigitSet

\* str.lower(), one character
LowerChar(c) ==
    IF IsUpperChar(c) THEN LowerSeq[CHOOSE i \in 1..26 : UpperSeq[i] = c] ELSE c

\* str.lower()
Lower(s) == [i \in 1..Len(s) |-> LowerChar(s[i])]

\* str.strip()
Strip(s) ==
    LET idx == {i \in 1..Len(s) : ~IsSpace(s[i])}
    IN  IF idx = {} THEN << >> ELSE SubSeq(s, SetMin(idx), SetMax(idx))

\* len(str.split()): the number of whitespace-separated words
WordCount(s) ==
    Cardinality({i \in 1..Len(s) :
                    /\ ~IsSpace(s[i])
                    /\ (i = 1 \/ IsSpace(s[i-1]))})

\* sub in s
Contains(s, sub) ==
    \E i \in 0..(Len(s) - Len(sub)) : SubSeq(s, i + 1, i + Len(sub)) = sub

\* str.endswith(":")
EndsWithColon(s) == Len(s) > 0 /\ s[Len(s)] = ":"

\* str.isupper(): some cased character, and no lower-case one
IsUpper(s) ==
    /\ \E i \in 1..Len(s) : IsUpperChar(s[i])
    /\ \A i \in 1..Len(s) : ~IsLowerChar(s[i])

\* sep.join(texts)
RECURSIVE Join(_, _)
Join(sep, texts) ==
    IF texts = << >> THEN << >>
    ELSE IF Len(texts) = 1 THEN texts[1]
    ELSE texts[1] \o sep \o Join(sep, Tail(texts))

\* round(x) of Python 3 (ties go to the even integer), x in tenths
Round(x) ==
    LET q == x \div 10
        r == x % 10
    IN  IF r < 5 THEN q
        ELSE IF r > 5 THEN q + 1
        ELSE IF q % 2 = 0 THEN q ELSE q + 1

\* a < b for two tuples of integers of one length, as Python compares tuples
LexLess(a, b) ==
    \E k \in 1..Len(a) : a[k] < b[k] /\ \A h \in 1..(k - 1) : a[h] = b[h]

\* sorted(s, key=...): keys[i] is the key of s[i]; the sort is stable
Sorted(s, keys) ==
    LET Rank(i) == 1 + Cardinality({j \in 1..Len(s) :
                        \/ LexLess(keys[j], keys[i])
                        \/ (keys[j] = keys[i] /\ j < i)})
    IN  [k \in 1..Len(s) |-> s[CHOOSE i \in 1..Len(s) : Rank(i) = k]]

(* ------------------------------ constants ------------------------------ *)

\* LEVEL_LABELS, indexed from 0 in the code and from 1 here
LEVEL_LABELS == << "BODY", "TITLE", "H1", "H2", "H3", "H4" >>

\* ("H1", "H2", "H3", "H4"), the levels final_filter_outline keeps
HeadingLevels == {"H1", "H2", "H3", "H4"}

\* rank of a level string in Python's string order ("H1" < "H2" < ...)
LevelRank(lv) == CHOOSE i \in 1..6 : LEVEL_LABELS[i] = lv

\* f"H{level}" for 1 <= level <= 3
HLabel(level) == LEVEL_LABELS[level + 2]

(* --------------------------- the input document ------------------------ *)
\* A span is [text, size, font]; a line is [spans]; a page is a sequence of
\* lines (the lines of its text blocks, in layout order); a document is
\* [title, toc, pages] with toc a sequence of [level, title, page].

\* "Bold" in font
HasBold(font) == Contains(font, << "B","o","l","d" >>)

\* "bold" in font.lower()
HasBoldAnyCase(font) == Contains(Lower(font), << "b","o","l","d" >>)

SpanTexts(line) == [i \in 1..Len(line.spans) |-> line.spans[i].text]

\* every line of the document with its 1-based page, in document order
RECURSIVE LinesFrom(_, _)
LinesFrom(pages, n) ==
    IF n > Len(pages) THEN << >>
    ELSE [i \in 1..Len(pages[n]) |-> [line |-> pages[n][i], page |-> n]]
         \o LinesFrom(pages, n + 1)

DocLines(d) == LinesFrom(d.pages, 1)

\* every span of a sequence of lines, in order
RECURSIVE SpansOf(_)
SpansOf(lines) ==
    IF lines = << >> THEN << >>
    ELSE Head(lines).line.spans \o SpansOf(Tail(lines))

(* ------------------------- ML-based approach --------------------------- *)

\* the record extract_blocks_from_pdf appends for a line l whose text is t
RawItem(l, t) ==
    [text |-> t,
     page |-> l.page,
     size |-> SetMax({l.line.spans[k].size : k \in 1..Len(l.line.spans)}),
     font |-> l.line.spans[1].font,
     bold |-> IF HasBold(l.line.spans[1].font) THEN 1 ELSE 0,
     caps |-> IF IsUpper(Strip(t)) THEN 1 ELSE 0]

\* the first pass of extract_blocks_from_pdf over the lines ls
RECURSIVE RawItems(_)
RawItems(ls) ==
    IF ls = << >> THEN << >>
    ELSE
      LET Keep(l, t) == IF Len(t) < 2 THEN << >> ELSE << RawItem(l, t) >>
      IN  (IF Head(ls).line.spans = << >> THEN << >>
           ELSE Keep(Head(ls), Strip(Join(<< " " >>, SpanTexts(Head(ls).line)))))
          \o RawItems(Tail(ls))

\* the second pass: rel_font is the pair (size, max_fontsize)
WithRelFont(raw, max_fontsize) ==
    [i \in 1..Len(raw) |->
        [text |-> raw[i].text, page |-> raw[i].page, size |-> raw[i].size,
         font |-> raw[i].font, bold |-> raw[i].bold, caps |-> raw[i].caps,
         rel_font |-> IF max_fontsize # 0 THEN << raw[i].size, max_fontsize >>
                      ELSE << 1, 1 >>,
         word_count |-> WordCount(raw[i].text)]]

\* extract_blocks_from_pdf
extract_blocks_from_pdf(d) ==
    LET Pass2(raw) ==
            WithRelFont(raw, SetMax({0} \cup {raw[i].size : i \in 1..Len(raw)}))
    IN  Pass2(RawItems(DocLines(d)))

\* a / b < c / d for positive denominators
RelLess(a, b) == a[1] * b[2] < b[1] * a[2]

\* build_features, one row
build_features(x) ==
    [size |-> x.size, bold |-> x.bold, caps |-> x.caps,
     word_count |-> x.word_count, rel_font |-> x.rel_font, page |-> x.page]

\* is_likely_label with "nwords < 3" for "nwords <= 3"
is_likely_label_under_3_words(text) ==
    LET Label(t) ==
            \/ Len(t) < 5
            \/ EndsWithColon(t)
            \/ WordCount(t) < 3
            \/ \E x \in { << "n","a","m","e" >>,
                          << "s","i","g","n","a","t","u","r","e" >>,
                          << "d","a","t","e" >> } : Contains(Lower(t), x)
    IN  Label(Strip(text))

\* is_likely_label
is_likely_label(text) ==
    LET Label(t) ==
            \/ Len(t) < 5
            \/ EndsWithColon(t)
            \/ WordCount(t) <= 3
            \/ \E x \in { << "n","a","m","e" >>,
                          << "s","i","g","n","a","t","u","r","e" >>,
                          << "d","a","t","e" >> } : Contains(Lower(t), x)
    IN  Label(Strip(text))

\* final_filter_outline
final_filter_outline(items) ==
    LET Heading(it) == [level |-> it.level, text |-> Strip(it.text), page |-> it.page]
        Out(kept) == [i \in 1..Len(kept) |-> Heading(kept[i])]
    IN  Out(SelectSeq(items, LAMBDA it :
                it.level \in HeadingLevels /\ ~is_likely_label(it.text)))

\* key=lambda x: (-x['rel_font'], x['page']); the rel_font of the lines of
\* one document share the denominator max_fontsize, so the numerator orders them
ByRelThenPage(x) == << 0 - x.rel_font[1], x.page >>

\* key=lambda x: (-x['rel_font'], -x['size'])
ByRelThenSize(x) == << 0 - x.rel_font[1], 0 - x.size >>

\* find_title
find_title(items) ==
    LET Keys(its, Key(_)) == [i \in 1..Len(its) |-> Key(its[i])]
        Pick(title_candidates, fp) ==
            IF title_candidates # << >>
            THEN Strip(Sorted(title_candidates,
                              Keys(title_candidates, ByRelThenPage))[1].text)
            ELSE IF fp = << >> THEN << >>
            ELSE Strip(Sorted(fp, Keys(fp, ByRelThenSize))[1].text)
    IN  Pick(SelectSeq(items, LAMBDA x : x.level = "TITLE"),
             SelectSeq(items, LAMBDA x : x.page = 1))

(* ----------------------- heuristic / ToC approach ---------------------- *)

\* the loop of get_title over the spans of page 1: each entry of spans is
\* [size, line], line being the text of the span's line joined with ""
RECURSIVE TitleLoop(_, _, _)
TitleLoop(spans, max_font_size, potential_title) ==
    IF spans = << >> THEN potential_title
    ELSE IF Head(spans).size > max_font_size
    THEN TitleLoop(Tail(spans), Head(spans).size, Head(spans).line)
    ELSE TitleLoop(Tail(spans), max_font_size, potential_title)

\* [size, line] for every span of the lines ls, in iteration order
RECURSIVE TitleSpans(_)
TitleSpans(ls) ==
    IF ls = << >> THEN << >>
    ELSE LET l == Head(ls).line
         IN  [k \in 1..Len(l.spans) |->
                [size |-> l.spans[k].size, line |-> Join(<< >>, SpanTexts(l))]]
             \o TitleSpans(Tail(ls))

\* get_title without the metadata branch
get_title_skips_metadata(d) ==
    Strip(TitleLoop(TitleSpans(SelectSeq(DocLines(d), LAMBDA l : l.page = 1)),
                    0, << >>))

\* get_title, for a document whose doc[0] exists or whose metadata has a title
get_title(d) ==
    IF d.title # << >> THEN Strip(d.title)
    ELSE Strip(TitleLoop(TitleSpans(SelectSeq(DocLines(d), LAMBDA l : l.page = 1)),
                         0, << >>))

\* doc[0] raises IndexError: reached when the metadata title is empty
get_title_raises(d) == d.title = << >> /\ Len(d.pages) = 0

\* extract_headings_from_toc without title.strip()
extract_headings_from_toc_unstripped(d) ==
    LET Out(kept) ==
            [absent |-> FALSE,
             headings |-> [i \in 1..Len(kept) |->
                             [level |-> HLabel(kept[i].level),
                              text |-> kept[i].title,
                              page |-> kept[i].page]]]
    IN  IF d.toc = << >> THEN [absent |-> TRUE, headings |-> << >>]
        ELSE Out(SelectSeq(d.toc, LAMBDA e : 1 <= e.level /\ e.level <= 3))

\* extract_headings_from_toc; None is modelled by the flag "absent"
extract_headings_from_toc(d) ==
    LET Out(kept) ==
            [absent |-> FALSE,
             headings |-> [i \in 1..Len(kept) |->
                             [level |-> HLabel(kept[i].level),
                              text |-> Strip(kept[i].title),
                              page |-> kept[i].page]]]
    IN  IF d.toc = << >> THEN [absent |-> TRUE, headings |-> << >>]
        ELSE Out(SelectSeq(d.toc, LAMBDA e : 1 <= e.level /\ e.level <= 3))

\* style_key = (round(s['size']), is_bold, s['font'])
StyleKey(span) ==
    [size |-> Round(span.size), bold |-> HasBoldAnyCase(span.font), font |-> span.font]

\* styles[k] += n, the dict kept in insertion order
AddStyle(styles, k, n) ==
    IF \A i \in 1..Len(styles) : styles[i].style # k
    THEN Append(styles, [style |-> k, count |-> n])
    ELSE [i \in 1..Len(styles) |->
            IF styles[i].style = k THEN [style |-> k, count |-> styles[i].count + n]
            ELSE styles[i]]

\* the loop of analyze_font_styles over the spans, styles being the dict so far
RECURSIVE CountStyles(_, _)
CountStyles(spans, styles) ==
    IF spans = << >> THEN styles
    ELSE CountStyles(Tail(spans),
                     AddStyle(styles, StyleKey(Head(spans)), Len(Strip(Head(spans).text))))

\* the sort key of analyze_font_styles reduced to the count
StyleSortKey_count_only(item) == << item.count >>

\* key=lambda item: (item[1], -item[0][0], -item[0][1])
StyleSortKey(item) ==
    << item.count, 0 - item.style.size, IF item.style.bold THEN 0 - 1 ELSE 0 >>

\* the styles dict of analyze_font_styles as a list, with the sort key of each
StyleKeys(styles) == [i \in 1..Len(styles) |-> StyleSortKey(styles[i])]

\* sorted_styles of analyze_font_styles
sorted_styles(d) ==
    LET Sort(styles) == Sorted(styles, StyleKeys(styles))
    IN  Sort(CountStyles(SpansOf(DocLines(d)), << >>))

\* the loop of analyze_font_styles over sorted_styles: the dict heading_styles
FirstThree(ss) ==
    [i \in 1..(IF Len(ss) < 3 THEN Len(ss) ELSE 3) |->
        [style |-> ss[i].style, level |-> HLabel(i)]]

\* analyze_font_styles: heading_styles, in insertion order
analyze_font_styles(d) == FirstThree(sorted_styles(d))

\* style_key in heading_styles
InStyles(k, heading_styles) ==
    \E i \in 1..Len(heading_styles) : heading_styles[i].style = k

\* heading_styles[style_key]
StyleLevel(k, heading_styles) ==
    heading_styles[CHOOSE i \in 1..Len(heading_styles) : heading_styles[i].style = k].level

\* "(?:\.[\d]+)*\s+" matched from position i + 1 of t
RECURSIVE DottedThenSpace(_, _)
DottedThenSpace(t, i) ==
    \/ (i + 1 <= Len(t) /\ IsSpace(t[i + 1]))
    \/ /\ i + 2 <= Len(t)
       /\ t[i + 1] = "."
       /\ \E j \in (i + 2)..Len(t) :
             /\ \A k \in (i + 2)..j : IsDigit(t[k])
             /\ DottedThenSpace(t, j)

\* numbered_heading_regex.match(t), compiled with re.IGNORECASE
numbered_heading_regex(t) ==
    \/ \E kw \in { << "c","h","a","p","t","e","r" >>,
                   << "s","e","c","t","i","o","n" >>,
                   << "p","a","r","t" >> } :
          /\ Len(t) > Len(kw)
          /\ Lower(SubSeq(t, 1, Len(kw))) = kw
          /\ \E i \in (Len(kw) + 1)..Len(t) : \E j \in (i + 1)..Len(t) :
                /\ \A k \in (Len(kw) + 1)..i : IsSpace(t[k])
                /\ \A k \in (i + 1)..j : IsDigit(t[k])
                /\ j + 1 <= Len(t) /\ IsSpace(t[j + 1])
    \/ \E i \in 1..Len(t) :
          /\ \A k \in 1..i : IsUpperChar(t[k]) \/ IsLowerChar(t[k]) \/ IsDigit(t[k])
          /\ DottedThenSpace(t, i)

\* the text and style the heuristic loop computes for one line
HeuristicText(line) == Strip(Join(<< >>, SpanTexts(line)))

\* one line of the loop of extract_headings_by_heuristic: the headings after it
HeuristicStep(style_key, line_text, page_num, heading_styles, headings) ==
    IF Len(line_text) < 3 THEN headings
    ELSE IF InStyles(style_key, heading_styles)
    THEN Append(headings, [level |-> StyleLevel(style_key, heading_styles),
                           text |-> line_text, page |-> page_num])
    ELSE IF /\ numbered_heading_regex(line_text)
            /\ \A i \in 1..Len(headings) :
                  headings[i].text # line_text \/ headings[i].page # page_num
    THEN Append(headings, [level |-> "H2", text |-> line_text, page |-> page_num])
    ELSE headings

\* the loop of extract_headings_by_heuristic over the lines ls
RECURSIVE HeuristicLoop(_, _, _)
HeuristicLoop(ls, heading_styles, headings) ==
    IF ls = << >> THEN headings
    ELSE HeuristicLoop(Tail(ls), heading_styles,
            IF Head(ls).line.spans = << >> THEN headings
            ELSE HeuristicStep(StyleKey(Head(ls).line.spans[1]),
                               HeuristicText(Head(ls).line),
                               Head(ls).page, heading_styles, headings))

\* the loop that fills unique_headings, seen being the (text, page) of out
RECURSIVE UniqueLoop(_, _)
UniqueLoop(headings, out) ==
    IF headings = << >> THEN out
    ELSE UniqueLoop(Tail(headings),
            IF \A i \in 1..Len(out) :
                  out[i].text # Head(headings).text \/ out[i].page # Head(headings).page
            THEN Append(out, Head(headings)) ELSE out)

\* unique_headings without the seen check
unique_headings_keeps_all(headings) == headings

unique_headings(headings) == UniqueLoop(headings, << >>)

\* key=lambda x: (x['page'], x['level'])
HeadingSortKey(x) == << x.page, LevelRank(x.level) >>

\* sorted(unique_headings, key=...)
SortHeadings(hs) == Sorted(hs, [i \in 1..Len(hs) |-> HeadingSortKey(hs[i])])

\* extract_headings_by_heuristic without the final sorted()
extract_headings_by_heuristic_unsorted(d, heading_styles) ==
    unique_headings(HeuristicLoop(DocLines(d), heading_styles, << >>))

\* extract_headings_by_heuristic
extract_headings_by_heuristic(d, heading_styles) ==
    SortHeadings(unique_headings(HeuristicLoop(DocLines(d), heading_styles, << >>)))

(* ------------------------------ the classifier ------------------------ *)
\* heading_classifier.pkl is an input: the artifact is one of a few
\* classifiers, each a pure function of the feature row, or one whose
\* predict raises.  A prediction is an index into LEVEL_LABELS, from 0.

ModelPool == {"bySize", "byBold", "raises"}

predict(m, f) ==
    IF m = "bySize"
    THEN (IF f.size >= 200 THEN 1 ELSE IF f.size >= 140 THEN 2 ELSE 0)
    ELSE (IF f.bold = 1 THEN 3 ELSE IF f.page >= 2 THEN 5 ELSE 2)

predict_raises(m) == m = "raises"

\* items[i]["level"] = LEVEL_LABELS[lv]
Labelled(items, m) ==
    [i \in 1..Len(items) |->
        [text |-> items[i].text, page |-> items[i].page,
         size |-> items[i].size, rel_font |-> items[i].rel_font,
         bold |-> items[i].bold, caps |-> items[i].caps,
         word_count |-> items[i].word_count,
         level |-> LEVEL_LABELS[predict(m, build_features(items[i])) + 1]]]

\* ml_based_extraction: [raised, predicted, items, title, outline]
ml_based_extraction(d, m) ==
    LET Out(labelled) ==
            [raised |-> FALSE, predicted |-> TRUE, items |-> labelled,
             title |-> find_title(labelled),
             outline |-> final_filter_outline(labelled)]
        Run(items) ==
            IF items = << >>
            THEN [raised |-> FALSE, predicted |-> FALSE, items |-> << >>,
                  title |-> << >>, outline |-> << >>]
            ELSE IF predict_raises(m)
            THEN [raised |-> TRUE, predicted |-> TRUE, items |-> << >>,
                  title |-> << >>, outline |-> << >>]
            ELSE Out(Labelled(items, m))
    IN  Run(extract_blocks_from_pdf(d))

\* "if headings is None" for "if not headings"
ToCRejected_absent_only(toc_result) == toc_result.absent

\* "if not headings": None and the empty list both fall through
ToCRejected(toc_result) == toc_result.absent \/ toc_result.headings = << >>

\* fallback_extraction: [raised, title, outline, path, heading_styles]
fallback_extraction(d) ==
    LET Heuristic(title, hs) ==
            [raised |-> FALSE, title |-> title,
             outline |-> extract_headings_by_heuristic(d, hs),
             path |-> "heuristic", heading_styles |-> hs]
        Run(title, toc_result) ==
            IF ~ToCRejected(toc_result)
            THEN [raised |-> FALSE, title |-> title, outline |-> toc_result.headings,
                  path |-> "toc", heading_styles |-> << >>]
            ELSE Heuristic(title, analyze_font_styles(d))
    IN  IF get_title_raises(d)
        THEN [raised |-> TRUE, title |-> << >>, outline |-> << >>,
              path |-> "none", heading_styles |-> << >>]
        ELSE Run(get_title(d), extract_headings_from_toc(d))

\* main, lines 232-239: the fallback runs when the model path raised or
\* returned an empty outline
UseFallback(ml) == ml.raised \/ ml.outline = << >>

(* ------------------------------ state ---------------------------------- *)

VARIABLES
    doc,             \* the input PDF: [title, toc, pages]
    model,           \* the classifier joblib.load returned
    pc,              \* "load", "ready", "done" or "crashed" (an error left main)
    result,          \* the object written for the document, once pc = "done"
    path,            \* which extraction produced result: "model", "toc", "heuristic"
    invoked,         \* the components that ran for the document
    items,           \* the labelled lines of the model path, when it predicted
    heading_styles   \* the Style Profiler's map, when the heuristic path ran

vars == << doc, model, pc, result, path, invoked, items, heading_styles >>

\* all sequences over S of length at most n
SeqUpTo(S, n) == UNION {[1..k -> S] : k \in 0..n}

\* the pages of a document of n pages whose lines ls lie on the pages pg
PagesOf(ls, n, pg) ==
    [k \in 1..n |->
        LET idx == {i \in 1..Len(ls) : pg[i] = k}
        IN  IF idx = {} THEN << >> ELSE SubSeq(ls, SetMin(idx), SetMax(idx))]

\* a document: at most MaxPages pages holding at most MaxLines lines of Lines
InitWith(Lines, Titles, Tocs) ==
    /\ \E t \in Titles, c \in Tocs, n \in 0..MaxPages, ls \in SeqUpTo(Lines, MaxLines) :
          \E pg \in [1..Len(ls) -> 1..n] :
             /\ \A i \in 1..(Len(ls) - 1) : pg[i] <= pg[i + 1]
             /\ doc = [title |-> t, toc |-> c, pages |-> PagesOf(ls, n, pg)]
    /\ model = "none"
    /\ pc = "load"
    /\ result = [title |-> << >>, outline |-> << >>]
    /\ path = "none"
    /\ invoked = {}
    /\ items = << >>
    /\ heading_styles = << >>

(* ------------------------------ actions -------------------------------- *)

\* main, line 224: joblib.load(MODEL_PATH) returns the classifier
LoadModel ==
    /\ pc = "load"
    /\ \E m \in ModelPool : model' = m
    /\ pc' = "ready"
    /\ UNCHANGED << doc, result, path, invoked, items, heading_styles >>

\* main, line 224: joblib.load raises (no artifact); nothing catches it
LoadModelFails ==
    /\ pc = "load"
    /\ pc' = "crashed"
    /\ UNCHANGED << doc, model, result, path, invoked, items, heading_styles >>

\* what ran in ml_based_extraction
MLInvoked(ml) == {"span_collector"} \cup (IF ml.predicted THEN {"predict"} ELSE {})

\* main, lines 232-244: the model path's outline is accepted and written
ProcessModel ==
    /\ pc = "ready"
    /\ \E ml \in {ml_based_extraction(doc, model)} :
          /\ ~UseFallback(ml)
          /\ result' = [title |-> ml.title, outline |-> ml.outline]
          /\ path' = "model"
          /\ invoked' = MLInvoked(ml)
          /\ items' = ml.items
    /\ pc' = "done"
    /\ UNCHANGED << doc, model, heading_styles >>

\* main, lines 232-244: fallback, the embedded outline is accepted and written
ProcessFallbackToc ==
    /\ pc = "ready"
    /\ \E ml \in {ml_based_extraction(doc, model)}, fb \in {fallback_extraction(doc)} :
          /\ UseFallback(ml)
          /\ ~fb.raised
          /\ fb.path = "toc"
          /\ result' = [title |-> fb.title, outline |-> fb.outline]
          /\ path' = "toc"
          /\ invoked' = MLInvoked(ml) \cup {"get_title", "toc"}
          /\ items' = ml.items
    /\ pc' = "done"
    /\ UNCHANGED << doc, model, heading_styles >>

\* main, lines 232-244: fallback, the heuristic outline is written
ProcessFallbackHeuristic ==
    /\ pc = "ready"
    /\ \E ml \in {ml_based_extraction(doc, model)}, fb \in {fallback_extraction(doc)} :
          /\ UseFallback(ml)
          /\ ~fb.raised
          /\ fb.path = "heuristic"
          /\ result' = [title |-> fb.title, outline |-> fb.outline]
          /\ path' = "heuristic"
          /\ invoked' = MLInvoked(ml) \cup {"get_title", "toc", "profiler", "heuristic"}
          /\ items' = ml.items
          /\ heading_styles' = fb.heading_styles
    /\ pc' = "done"
    /\ UNCHANGED << doc, model >>

\* main, lines 236 and 239: fallback_extraction raises (doc[0] of get_title),
\* inside the try and again in the except handler, and the error leaves main
ProcessFallbackRaises ==
    /\ pc = "ready"
    /\ \E ml \in {ml_based_extraction(doc, model)}, fb \in {fallback_extraction(doc)} :
          /\ UseFallback(ml)
          /\ fb.raised
          /\ invoked' = MLInvoked(ml) \cup {"get_title"}
    /\ pc' = "crashed"
    /\ UNCHANGED << doc, model, result, path, items, heading_styles >>

Next ==
    \/ LoadModel
    \/ LoadModelFails
    \/ ProcessModel
    \/ ProcessFallbackToc
    \/ ProcessFallbackHeuristic
    \/ ProcessFallbackRaises

(* ------------------------------ input pools ---------------------------- *)
\* Fonts, lines, metadata titles and embedded outlines that documents are
\* built from.

Hv == << "H","v" >>

HvBold == << "H","v","-","B","o","l","d" >>

Ti == << "T","i" >>

TiBOLD == << "T","i","-","B","O","L","D" >>

\* "1.2 Scope of work", 14pt bold
LnScope == [spans |-> << [text |-> << "1",".","2"," ","S","c","o","p","e"," ","o","f"," ","w","o","r","k" >>, size |-> 140, font |-> HvBold] >>]

\* "Hello world of pdf", 10.5pt
LnHello == [spans |-> << [text |-> << "H","e","l","l","o"," ","w","o","r","l","d"," ","o","f"," ","p","d","f" >>, size |-> 105, font |-> Hv] >>]

\* "Date:", 24pt
LnDate == [spans |-> << [text |-> << "D","a","t","e",":" >>, size |-> 240, font |-> Ti] >>]

\* " My Doc "
TitleMeta == << " ","M","y"," ","D","o","c"," " >>

\* [(2, "Back ", 2), (1, " Intro", 1)]
TocGood == << [level |-> 2, title |-> << "B","a","c","k"," " >>, page |-> 2],
              [level |-> 1, title |-> << " ","I","n","t","r","o" >>, page |-> 1] >>

\* [(4, "Deep", 1)]
TocDeep == << [level |-> 4, title |-> << "D","e","e","p" >>, page |-> 1] >>

\* [(1, "Intro", 1), (4, "Deep", 1)]
TocMixed == << [level |-> 1, title |-> << "I","n","t","r","o" >>, page |-> 1],
               [level |-> 4, title |-> << "D","e","e","p" >>, page |-> 1] >>

\* "1.2 Scope of it", 14pt bold
LnNumbered == [spans |-> << [text |-> << "1",".","2"," ","S","c","o","p","e"," ","o","f"," ","i","t" >>, size |-> 140, font |-> HvBold] >>]

\* "1.2 Scope of " at 10.5pt followed by "it" at 24pt in a font named BOLD
LnTwoSpans == [spans |-> << [text |-> << "1",".","2"," ","S","c","o","p","e"," ","o","f"," " >>, size |-> 105, font |-> Hv],
                            [text |-> << "i","t" >>, size |-> 240, font |-> TiBOLD] >>]

\* "Q1", 24pt
LnShort == [spans |-> << [text |-> << "Q","1" >>, size |-> 240, font |-> Ti] >>]

\* "Overview of pdf", 11.5pt
LnPlain == [spans |-> << [text |-> << "O","v","e","r","v","i","e","w"," ","o","f"," ","p","d","f" >>, size |-> 115, font |-> Ti] >>]

\* "Table of Contents", 14pt bold
LnContents == [spans |-> << [text |-> << "T","a","b","l","e"," ","o","f"," ","C","o","n","t","e","n","t","s" >>, size |-> 140, font |-> HvBold] >>]

\* "Sign on the line:", 10.5pt
LnSign == [spans |-> << [text |-> << "S","i","g","n"," ","o","n"," ","t","h","e"," ","l","i","n","e",":" >>, size |-> 105, font |-> Hv] >>]

\* "Full Name of applicant", 10.5pt bold
LnName == [spans |-> << [text |-> << "F","u","l","l"," ","N","a","m","e"," ","o","f"," ","a","p","p","l","i","c","a","n","t" >>, size |-> 105, font |-> HvBold] >>]

(* ---------------------------- specifications --------------------------- *)

\* documents that exercise the fallback chain and the title
Init == InitWith({LnScope, LnHello, LnDate},
                 {<< >>, TitleMeta},
                 {<< >>, TocGood, TocDeep, TocMixed})

Spec == Init /\ [][Next]_vars

\* documents whose lines are form captions and headings
InitLabel == InitWith({LnScope, LnContents, LnSign, LnName},
                      {<< >>},
                      {<< >>, TocGood})

SpecLabel == InitLabel /\ [][Next]_vars

\* documents with many styles, repeated texts and short lines
InitStyle == InitWith({LnNumbered, LnTwoSpans, LnShort, LnPlain},
                      {<< >>},
                      {<< >>, TocGood})

SpecStyle == InitStyle /\ [][Next]_vars

(* ------------------------------ properties ----------------------------- *)

Done == pc = "done"

\* the embedded outline is non-empty and every entry has a level in 1..3
TocLevelsIn13(d) ==
    d.toc # << >> /\ \A i \in 1..Len(d.toc) : d.toc[i].level \in 1..3

\* the embedded outline is non-empty and no entry has a level in 1..3
TocLevelsAllOutside(d) ==
    d.toc # << >> /\ \A i \in 1..Len(d.toc) : d.toc[i].level \notin 1..3

\* an embedded outline mirrored entry by entry: level n as Hn, title trimmed
MirrorOf(toc) ==
    [i \in 1..Len(toc) |->
        [level |-> CASE toc[i].level = 1 -> "H1"
                     [] toc[i].level = 2 -> "H2"
                     [] OTHER -> "H3",
         text |-> Strip(toc[i].title),
         page |-> toc[i].page]]

\* page ascending, and level ascending within a page
IsSortedOutline(o) ==
    \A i \in 1..(Len(o) - 1) :
        \/ o[i].page < o[i + 1].page
        \/ (o[i].page = o[i + 1].page
            /\ LevelRank(o[i].level) <= LevelRank(o[i + 1].level))

PagesAscending(o) == \A i \in 1..(Len(o) - 1) : o[i].page <= o[i + 1].page

ModelUnavailable == (pc # "load" /\ model = "none") \/ model = "raises"

(* C2 as stated: whenever the classifier is unavailable (the artifact does  *)
(* not load, or the prediction raises) the orchestrator recovers with the   *)
(* heuristic path and no error reaches the caller.                          *)
C2_ModelUnavailableRecovered ==
    ModelUnavailable => pc # "crashed"

TocEntriesIn13(toc) == SelectSeq(toc, LAMBDA e : e.level \in 1..3)

Page1Lines(d) == SelectSeq(DocLines(d), LAMBDA l : l.page = 1)

\* line l holds a span of size z
HasSpanOfSize(l, z) == \E k \in 1..Len(l.line.spans) : l.line.spans[k].size = z

\* title is the text (spans joined with "", trimmed) of the first of the
\* lines ls that holds a span of the largest size z of ls, or is empty when
\* ls has no span of a positive size
LargestFontTitle(ls, z, title) ==
    IF z <= 0 THEN title = << >>
    ELSE \E i \in 1..Len(ls) :
            /\ HasSpanOfSize(ls[i], z)
            /\ \A j \in 1..(i - 1) : ~HasSpanOfSize(ls[j], z)
            /\ title = Strip(Join(<< >>, SpanTexts(ls[i].line)))

\* the largest font size of the spans of the lines ls, 0 when there is none
LargestSize(ls) ==
    SetMax({0} \cup UNION {{ls[i].line.spans[k].size : k \in 1..Len(ls[i].line.spans)}
                              : i \in 1..Len(ls)})

\* title is the text of one of the items S of highest relative font size
BestOf(its, S, title) ==
    \E i \in S :
        /\ \A j \in S : ~RelLess(its[i].rel_font, its[j].rel_font)
        /\ title = Strip(its[i].text)

\* the title the model path resolves: a TITLE line of highest relative font
\* size, else a line of page 1 of highest relative font size, else empty
ModelTitle(its, title) ==
    IF \E i \in 1..Len(its) : its[i].level = "TITLE"
    THEN BestOf(its, {i \in 1..Len(its) : its[i].level = "TITLE"}, title)
    ELSE IF \E i \in 1..Len(its) : its[i].page = 1
    THEN BestOf(its, {i \in 1..Len(its) : its[i].page = 1}, title)
    ELSE title = << >>

\* the title the fallback resolves without a metadata title
FallbackTitle(d, title) ==
    LargestFontTitle(Page1Lines(d), LargestSize(Page1Lines(d)), title)

C5_AlwaysAResult ==
    /\ model # "none" => pc # "crashed"
    /\ (Done /\ DocLines(doc) = << >> /\ doc.toc = << >>) => result.outline = << >>

Emits(l, hs) ==
    /\ l.line.spans # << >>
    /\ Len(HeuristicText(l.line)) >= 3
    /\ \/ InStyles(StyleKey(l.line.spans[1]), hs)
       \/ numbered_heading_regex(HeuristicText(l.line))

\* the level the heuristic gives line l: the mapped one, else H2
EmitLevel(l, hs) ==
    IF InStyles(StyleKey(l.line.spans[1]), hs)
    THEN StyleLevel(StyleKey(l.line.spans[1]), hs)
    ELSE "H2"

\* lines a and b give the same (text, page)
SameTextAndPage(a, b) ==
    a.page = b.page /\ HeuristicText(a.line) = HeuristicText(b.line)

\* heading h is what line ls[i] emits, and no earlier line emits its (text, page)
FirstEmitterOf(h, ls, i, hs) ==
    /\ Emits(ls[i], hs)
    /\ h.text = HeuristicText(ls[i].line)
    /\ h.page = ls[i].page
    /\ h.level = EmitLevel(ls[i], hs)
    /\ \A j \in 1..(i - 1) : SameTextAndPage(ls[j], ls[i]) => ~Emits(ls[j], hs)

\* o has no two headings of one (text, page); every heading of o has the
\* level of the first line that emits its (text, page); every emitting line
\* has its (text, page) in o
DeduplicatedFirstWins(o, ls, hs) ==
    /\ \A i, j \in 1..Len(o) :
          i # j => (o[i].text # o[j].text \/ o[i].page # o[j].page)
    /\ \A k \in 1..Len(o) : \E i \in 1..Len(ls) : FirstEmitterOf(o[k], ls, i, hs)
    /\ \A i \in 1..Len(ls) :
          Emits(ls[i], hs) =>
              \E k \in 1..Len(o) :
                  o[k].text = HeuristicText(ls[i].line) /\ o[k].page = ls[i].page

(* C6: the outline of the heuristic path (no embedded outline, no usable    *)
(* model) has no two headings with the same (text, page); of several lines  *)
(* giving one (text, page), the first in document order is kept, with the   *)
(* level it was given.                                                      *)
C6_HeuristicDeduplicated ==
    (Done /\ path = "heuristic") =>
        DeduplicatedFirstWins(result.outline, DocLines(doc), heading_styles)

\* no embedded outline, predict raises, and two lines of one page give the
\* same text at different levels
C6_Witness ==
    /\ Done
    /\ path = "heuristic"
    /\ doc.toc = << >>
    /\ model = "raises"
    /\ \E ls \in {DocLines(doc)} : \E i, j \in 1..Len(ls) :
          /\ i < j
          /\ SameTextAndPage(ls[i], ls[j])
          /\ Emits(ls[i], heading_styles)
          /\ Emits(ls[j], heading_styles)
          /\ EmitLevel(ls[i], heading_styles) # EmitLevel(ls[j], heading_styles)

\* label-like, in the words of the claim
LabelLike(t) ==
    \/ Len(t) < 5
    \/ t[Len(t)] = ":"
    \/ WordCount(t) <= 3
    \/ Contains(Lower(t), << "n","a","m","e" >>)
    \/ Contains(Lower(t), << "s","i","g","n","a","t","u","r","e" >>)
    \/ Contains(Lower(t), << "d","a","t","e" >>)

\* line it of the model path belongs to the outline
IsModelHeading(it) ==
    it.level \in {"H1", "H2", "H3", "H4"} /\ ~LabelLike(Strip(it.text))

\* o is the lines of its that belong to the outline, in order
ExactlyTheHeadings(o, its) ==
    \E kept \in {SelectSeq(its, IsModelHeading)} :
        /\ Len(o) = Len(kept)
        /\ \A k \in 1..Len(o) :
              /\ o[k].level = kept[k].level
              /\ o[k].text = Strip(kept[k].text)
              /\ o[k].page = kept[k].page

(* C7: on the model path the outline is exactly the lines classified H1-H4  *)
(* that are not label-like, in document order; no BODY or TITLE line and no *)
(* label-like line (trimmed length < 5, ending with a colon, at most 3      *)
(* words, or containing "name", "signature" or "date" in any case) appears. *)
C7_ModelOutlineFiltered ==
    (Done /\ path = "model") =>
        /\ ExactlyTheHeadings(result.outline, items)
        /\ \A k \in 1..Len(result.outline) :
              /\ result.outline[k].level \in {"H1", "H2", "H3", "H4"}
              /\ ~LabelLike(result.outline[k].text)

\* the classifier gave every line a heading level, a label-like line is among
\* them, and the accepted outline leaves lines out
C7_Witness ==
    /\ Done
    /\ path = "model"
    /\ Len(result.outline) < Len(items)
    /\ \A i \in 1..Len(items) : items[i].level \in {"H1", "H2", "H3", "H4"}
    /\ \E i \in 1..Len(items) : LabelLike(items[i].text)

\* the character mass of style k: the trimmed lengths of its spans, summed
RECURSIVE StyleMass(_, _)
StyleMass(spans, k) ==
    IF spans = << >> THEN 0
    ELSE (IF StyleKey(Head(spans)) = k THEN Len(Strip(Head(spans).text)) ELSE 0)
         + StyleMass(Tail(spans), k)

\* style a ranks no later than style b: lower mass, then larger rounded
\* size, then bold before not bold
RanksNoLater(a, ma, b, mb) ==
    \/ ma < mb
    \/ (ma = mb /\ a.size > b.size)
    \/ (ma = mb /\ a.size = b.size /\ (a.bold \/ ~b.bold))

\* the styles of the spans
StylesOf(spans) == {StyleKey(spans[i]) : i \in 1..Len(spans)}

\* hs maps min(3, number of styles) styles of spans, one level each, H1, H2,
\* H3 in rank order, and every unmapped style ranks after the mapped ones
IsRankedStyleMap(hs, spans) ==
    /\ Len(hs) <= 3
    /\ Len(hs) = (IF Cardinality(StylesOf(spans)) < 3
                  THEN Cardinality(StylesOf(spans)) ELSE 3)
    /\ \A i \in 1..Len(hs) :
          /\ hs[i].style \in StylesOf(spans)
          /\ hs[i].level = << "H1", "H2", "H3" >>[i]
    /\ \A i, j \in 1..Len(hs) : i # j => hs[i].style # hs[j].style
    /\ \A i, j \in 1..Len(hs) :
          i < j => RanksNoLater(hs[i].style, StyleMass(spans, hs[i].style),
                                hs[j].style, StyleMass(spans, hs[j].style))
    /\ \A i \in 1..Len(hs) :
          \A u \in StylesOf(spans) \ {hs[j].style : j \in 1..Len(hs)} :
              RanksNoLater(hs[i].style, StyleMass(spans, hs[i].style),
                           u, StyleMass(spans, u))

(* C8: the Style Profiler's map has at most 3 entries, maps each StyleKey   *)
(* to one level and each of H1, H2, H3 to at most one StyleKey, in rank     *)
(* order (ascending character mass, ties by descending rounded size, then   *)
(* bold first); with fewer than 3 styles it maps as many as exist, from H1. *)
C8_StyleMapRanked ==
    (Done /\ path = "heuristic") =>
        IsRankedStyleMap(heading_styles, SpansOf(DocLines(doc)))

\* a document of four styles, two of them of equal mass and size, was profiled
C8_Witness ==
    /\ Done
    /\ path = "heuristic"
    /\ Len(heading_styles) = 3
    /\ \E spans \in {SpansOf(DocLines(doc))} :
          /\ Cardinality(StylesOf(spans)) >= 4
          /\ StyleMass(spans, heading_styles[1].style)
               = StyleMass(spans, heading_styles[2].style)
          /\ heading_styles[1].style.size = heading_styles[2].style.size

\* "Chapter N", "Section N" or "Part N" in any case, or a dotted-numbering
\* prefix: a first word of digits, letters and dots that holds a digit
StructuralPattern(t) ==
    \/ \E kw \in { << "c","h","a","p","t","e","r" >>,
                   << "s","e","c","t","i","o","n" >>,
                   << "p","a","r","t" >> } :
          /\ Len(t) >= Len(kw) + 2
          /\ Lower(SubSeq(t, 1, Len(kw))) = kw
          /\ IsSpace(t[Len(kw) + 1])
          /\ \E j \in (Len(kw) + 2)..Len(t) :
                /\ IsDigit(t[j])
                /\ \A k \in (Len(kw) + 1)..(j - 1) : IsSpace(t[k])
    \/ \E i \in 1..(Len(t) - 1) :
          /\ IsSpace(t[i + 1])
          /\ \A k \in 1..i : ~IsSpace(t[k])
          /\ \A k \in 1..i :
                IsDigit(t[k]) \/ IsUpperChar(t[k]) \/ IsLowerChar(t[k]) \/ t[k] = "."
          /\ \E k \in 1..i : IsDigit(t[k])

\* the line is one the Span Collector keeps: at least 2 characters, trimmed
KeptBySpanCollector(l) ==
    l.line.spans # << >> /\ Len(Strip(Join(<< " " >>, SpanTexts(l.line)))) >= 2

\* the only line of its (text, page)
OnlyLineOfItsText(ls, i) ==
    \A j \in 1..Len(ls) : j # i => ~SameTextAndPage(ls[j], ls[i])

\* heading (text, page) of line l is in o
InOutline(o, l) ==
    \E k \in 1..Len(o) : o[k].text = HeuristicText(l.line) /\ o[k].page = l.page

\* heading (text, page) of line l is in o, with level lv
InOutlineAt(o, l, lv) ==
    \E k \in 1..Len(o) :
        o[k].text = HeuristicText(l.line) /\ o[k].page = l.page /\ o[k].level = lv

(* C10 as stated: every line the Span Collector keeps (at least 2           *)
(* characters, trimmed) is labelled by first match: a line whose style is   *)
(* mapped is emitted with the mapped level; otherwise a line matching a     *)
(* structural pattern is emitted as H2 on its page; a line matching neither *)
(* is not emitted.  (Stated for the lines that share their text and page    *)
(* with no other line.)                                                     *)
C10_FirstMatchOnKeptLines ==
    (Done /\ path = "heuristic") =>
        \E ls \in {DocLines(doc)} : \A i \in 1..Len(ls) :
            (KeptBySpanCollector(ls[i]) /\ OnlyLineOfItsText(ls, i)) =>
                IF InStyles(StyleKey(ls[i].line.spans[1]), heading_styles)
                THEN InOutlineAt(result.outline, ls[i],
                                 StyleLevel(StyleKey(ls[i].line.spans[1]), heading_styles))
                ELSE IF StructuralPattern(HeuristicText(ls[i].line))
                THEN InOutlineAt(result.outline, ls[i], "H2")
                ELSE ~InOutline(result.outline, ls[i])

====
